---- MODULE Spec2Model ----
(***************************************************************************)
(* Log ingestion pipeline: LogParser (src/log_parser.py) and LogPipeline   *)
(* (src/log_pipeline.py), fed by the log file that EcommerceApp            *)
(* (src/app.py) appends to.                                                *)
(*                                                                         *)
(* Text is a sequence of tokens, a token a record [k, v]:                  *)
(*   k = "p"  punctuation   { } [ ] : ,                                    *)
(*   k = "s"  a JSON string literal whose content is v                     *)
(*   k = "n"  a JSON number literal whose value is n                       *)
(*   k = "l"  one of the literal names null, true, false                   *)
(*   k = "w"  one whitespace character (" " or "\n")                       *)
(*   k = "x"  any other run of characters                                  *)
(* A Python value is a record [t, s, i, q, d]: t is the name of its type,  *)
(* s the content of a str, i the value of an int or bool, q the items of   *)
(* a list, d the items of a dict (a function of its keys).                 *)
(***************************************************************************)
EXTENDS Integers, Sequences, FiniteSets, TLC

\* ------------------------------------------------------------------ text

P(c) == [k |-> "p", v |-> c, n |-> 0]
S(c) == [k |-> "s", v |-> c, n |-> 0]
N(i) == [k |-> "n", v |-> "", n |-> i]
L(c) == [k |-> "l", v |-> c, n |-> 0]
X(c) == [k |-> "x", v |-> c, n |-> 0]
SP == [k |-> "w", v |-> " ", n |-> 0]
NL == [k |-> "w", v |-> "\n", n |-> 0]

IsTok(tok, kind, c) == tok.k = kind /\ tok.v = c

\* ---------------------------------------------------------- Python values

PyStr(s) == [t |-> "str", s |-> s, i |-> 0, q |-> <<>>, d |-> <<>>]
PyInt(i) == [t |-> "int", s |-> "", i |-> i, q |-> <<>>, d |-> <<>>]
PyBool(b) == [t |-> "bool", s |-> "", i |-> IF b THEN 1 ELSE 0, q |-> <<>>, d |-> <<>>]
PyNone == [t |-> "NoneType", s |-> "", i |-> 0, q |-> <<>>, d |-> <<>>]
PyList(q) == [t |-> "list", s |-> "", i |-> 0, q |-> q, d |-> <<>>]
PyDict(f) == [t |-> "dict", s |-> "", i |-> 0, q |-> <<>>, d |-> f]
EmptyDict == <<>>

\* the argument of parse_log_line: a str with its text, or a value of
\* another type
StrArg(text) == [t |-> "str", text |-> text]
OtherArg(type) == [t |-> type, text |-> <<>>]

\* dict(d, k=val): the dict d with key k set to val
DictSet(d, key, val) == [x \in DOMAIN d \cup {key} |-> IF x = key THEN val ELSE d[x]]

\* ------------------------------------------------------------ json.loads

Ok(val, next) == [ok |-> TRUE, v |-> val, n |-> next, err |-> ""]
Fail(msg, at) == [ok |-> FALSE, v |-> PyNone, n |-> at, err |-> msg]

RECURSIVE SkipWs(_, _)
SkipWs(s, i) ==
  IF i <= Len(s) /\ s[i].k = "w" THEN SkipWs(s, i + 1) ELSE i

RECURSIVE ParseValue(_, _), ParseElems(_, _, _), ParseMembers(_, _, _)

\* the JSON value that starts at token i (whitespace already skipped)
ParseValue(s, i) ==
  IF i > Len(s) THEN Fail("Expecting value", i)
  ELSE IF s[i].k = "s" THEN Ok(PyStr(s[i].v), i + 1)
  ELSE IF s[i].k = "n" THEN Ok(PyInt(s[i].n), i + 1)
  ELSE IF s[i].k = "l"
    THEN IF s[i].v = "null" THEN Ok(PyNone, i + 1)
         ELSE Ok(PyBool(s[i].v = "true"), i + 1)
  ELSE IF IsTok(s[i], "p", "[")
    THEN LET j == SkipWs(s, i + 1) IN
         IF j <= Len(s) /\ IsTok(s[j], "p", "]")
           THEN Ok(PyList(<<>>), j + 1)
           ELSE ParseElems(s, j, <<>>)
  ELSE IF IsTok(s[i], "p", "{")
    THEN LET j == SkipWs(s, i + 1) IN
         IF j <= Len(s) /\ IsTok(s[j], "p", "}")
           THEN Ok(PyDict(EmptyDict), j + 1)
           ELSE ParseMembers(s, j, EmptyDict)
  ELSE Fail("Expecting value", i)

\* the elements of an array, the first starting at token i
ParseElems(s, i, acc) ==
  LET r == ParseValue(s, i) IN
  IF ~r.ok THEN r
  ELSE LET j == SkipWs(s, r.n) IN
       IF j > Len(s) THEN Fail("Expecting ',' delimiter", j)
       ELSE IF IsTok(s[j], "p", ",")
         THEN ParseElems(s, SkipWs(s, j + 1), Append(acc, r.v))
       ELSE IF IsTok(s[j], "p", "]")
         THEN Ok(PyList(Append(acc, r.v)), j + 1)
       ELSE Fail("Expecting ',' delimiter", j)

\* the members of an object, the first key at token i; a repeated key
\* keeps the last value
ParseMembers(s, i, acc) ==
  IF i > Len(s) \/ s[i].k # "s"
    THEN Fail("Expecting property name enclosed in double quotes", i)
  ELSE
    LET c == SkipWs(s, i + 1) IN
    IF c > Len(s) \/ ~IsTok(s[c], "p", ":")
      THEN Fail("Expecting ':' delimiter", c)
    ELSE
      LET r == ParseValue(s, SkipWs(s, c + 1)) IN
      IF ~r.ok THEN r
      ELSE LET j == SkipWs(s, r.n)
               d == DictSet(acc, s[i].v, r.v) IN
           IF j > Len(s) THEN Fail("Expecting ',' delimiter", j)
           ELSE IF IsTok(s[j], "p", ",")
             THEN ParseMembers(s, SkipWs(s, j + 1), d)
           ELSE IF IsTok(s[j], "p", "}")
             THEN Ok(PyDict(d), j + 1)
           ELSE Fail("Expecting ',' delimiter", j)

\* json.loads of a str: the value, or JSONDecodeError with its message
loads(s) ==
  LET r == ParseValue(s, SkipWs(s, 1)) IN
  IF ~r.ok THEN r
  ELSE IF SkipWs(s, r.n) <= Len(s) THEN Fail("Extra data", SkipWs(s, r.n))
  ELSE r

\* str.strip(): leading and trailing whitespace removed
RECURSIVE LStrip(_), RStrip(_)
LStrip(s) == IF s # <<>> /\ Head(s).k = "w" THEN LStrip(Tail(s)) ELSE s
RStrip(s) ==
  IF s # <<>> /\ s[Len(s)].k = "w" THEN RStrip(SubSeq(s, 1, Len(s) - 1)) ELSE s
strip(s) == RStrip(LStrip(s))

\* ------------------------------------------------------- strings, dates

\* the substrings of each string of the model that the code tests with `in`
SubstringTable ==
  [u \in {"Mozilla/5.0 (Windows NT 10.0; Win64; x64) Chrome/100.0",
          "Mozilla/5.0 (Windows NT 6.1) Chrome/100.0",
          "Mozilla/5.0 (Macintosh; Intel Mac OS X 10_15_7) Safari/605.1.15",
          "Mozilla/5.0 (Linux; Android 10; SM-G973F) Mobile Safari/537.36",
          "Mozilla/5.0 (iPhone; CPU iPhone OS 15_4 like Mac OS X) Mobile/15E148",
          "Mozilla/5.0 (X11; Ubuntu; Linux x86_64; rv:98.0) Firefox/98.0",
          "Mozilla/5.0 (iPad; CPU OS 13_5 like Mac OS X) CriOS/83.0 Mobile/15E148",
          "curl/8.0"} |->
    CASE u = "Mozilla/5.0 (Windows NT 10.0; Win64; x64) Chrome/100.0" ->
           {"Windows NT 10.0", "Windows NT", "Windows"}
      [] u = "Mozilla/5.0 (Windows NT 6.1) Chrome/100.0" ->
           {"Windows NT", "Windows"}
      [] u = "Mozilla/5.0 (Macintosh; Intel Mac OS X 10_15_7) Safari/605.1.15" ->
           {"Macintosh; Intel Mac OS X", "Macintosh"}
      [] u = "Mozilla/5.0 (Linux; Android 10; SM-G973F) Mobile Safari/537.36" ->
           {"Linux", "Android", "Mobile"}
      [] u = "Mozilla/5.0 (iPhone; CPU iPhone OS 15_4 like Mac OS X) Mobile/15E148" ->
           {"iPhone", "Mobile"}
      [] u = "Mozilla/5.0 (X11; Ubuntu; Linux x86_64; rv:98.0) Firefox/98.0" ->
           {"X11", "Ubuntu", "Linux"}
      [] u = "Mozilla/5.0 (iPad; CPU OS 13_5 like Mac OS X) CriOS/83.0 Mobile/15E148" ->
           {"iPad", "Mobile"}
      [] OTHER -> {}]

\* the words _parse_user_agent looks for
Markers ==
  {"Mobile", "Android", "iPhone", "iPad", "Windows", "Macintosh", "X11", "Linux",
   "Windows NT 10.0", "Windows NT", "Macintosh; Intel Mac OS X", "Ubuntu"}

\* sub occurs in s at some offset
Find(sub, s) ==
  \E i \in 1..(Len(s) - Len(sub) + 1) : SubSeq(s, i, i + Len(sub) - 1) = sub

\* Python's `sub in s` for two str: read from the table for the strings
\* and words it covers, searched for otherwise
Contains(sub, s) ==
  IF s \in DOMAIN SubstringTable /\ sub \in Markers
    THEN sub \in SubstringTable[s]
    ELSE Find(sub, s)

\* the hour of each string of the model that datetime.fromisoformat accepts
IsoHour ==
  [s \in {"2025-07-03T00:05:00", "2025-07-03T16:29:10.565498",
          "2025-07-03T23:59:59"} |->
    CASE s = "2025-07-03T00:05:00" -> 0
      [] s = "2025-07-03T16:29:10.565498" -> 16
      [] OTHER -> 23]

\* datetime.fromisoformat(x).hour, or the exception raised
fromisoformat(x) ==
  IF x.t # "str" THEN [exc |-> "TypeError", hour |-> 0]
  ELSE IF x.s \in DOMAIN IsoHour THEN [exc |-> "", hour |-> IsoHour[x.s]]
  ELSE [exc |-> "ValueError", hour |-> 0]

\* ----------------------------------------------------------- LogParser

required_fields ==
  << <<"timestamp", "str">>, <<"event_type", "str">>, <<"session_id", "str">>,
     <<"user_id", "str">>, <<"ip_address", "str">>, <<"user_agent", "str">>,
     <<"location", "str">>, <<"data", "dict">> >>

\* `field in entry`: "True", "False" or the exception raised
PyIn(field, entry) ==
  IF entry.t = "dict" THEN (IF field \in DOMAIN entry.d THEN "True" ELSE "False")
  ELSE IF entry.t = "list"
    THEN (IF \E i \in 1..Len(entry.q) : entry.q[i].t = "str" /\ entry.q[i].s = field
            THEN "True" ELSE "False")
  ELSE IF entry.t = "str"
    THEN (IF Contains(field, entry.s) THEN "True" ELSE "False")
  ELSE "TypeError"

\* the loop over required_fields from its i-th item on
RECURSIVE CheckFields(_, _)
CheckFields(entry, i) ==
  IF i > Len(required_fields) THEN "True"
  ELSE LET field == required_fields[i][1]
           expected_type == required_fields[i][2]
           present == PyIn(field, entry) IN
       IF present = "TypeError" THEN "TypeError"
       ELSE IF present = "False" THEN "False"
       ELSE IF entry.t # "dict" THEN "TypeError"
       ELSE IF entry.d[field].t # expected_type THEN "False"
       ELSE CheckFields(entry, i + 1)

\* validate_log_entry without lines 81-85: the timestamp is never parsed
validate_without_timestamp(entry) == CheckFields(entry, 1)

\* validate_log_entry without the try/except of lines 81-85: the
\* ValueError of fromisoformat escapes
validate_timestamp_uncaught(entry) ==
  LET fields == CheckFields(entry, 1) IN
  IF fields # "True" THEN fields
  ELSE IF fromisoformat(entry.d["timestamp"]).exc = "ValueError" THEN "ValueError"
  ELSE "True"

\* validate_log_entry with `return False` for the `pass` of line 93: a
\* record whose data has no user_id is rejected
validate_requires_data_user_id(entry) ==
  LET fields == CheckFields(entry, 1) IN
  IF fields # "True" THEN fields
  ELSE IF fromisoformat(entry.d["timestamp"]).exc = "ValueError" THEN "False"
  ELSE IF "user_id" \notin DOMAIN entry.d["data"].d THEN "False"
  ELSE "True"

\* validate_log_entry: "True", "False" or the exception that escapes it
validate_log_entry(entry) ==
  LET fields == CheckFields(entry, 1) IN
  IF fields # "True" THEN fields
  ELSE IF fromisoformat(entry.d["timestamp"]).exc = "ValueError" THEN "False"
  ELSE "True"

NowStamp == "datetime.now().isoformat()"

\* _handle_failed_log without line 102: the failure is stored, not counted
handle_failed_log_uncounted(p, original_line, reason, message) ==
  [stats |-> p.stats,
   failed_logs |-> Append(p.failed_logs,
     [timestamp |-> NowStamp,
      original_line |-> strip(original_line),
      reason |-> reason, message |-> message])]

\* _handle_failed_log storing one reason whatever the caller passes
handle_failed_log_one_reason(p, original_line, reason, message) ==
  [stats |-> [p.stats EXCEPT !.failed = @ + 1],
   failed_logs |-> Append(p.failed_logs,
     [timestamp |-> NowStamp,
      original_line |-> strip(original_line),
      reason |-> "unexpected_error", message |-> message])]

\* _handle_failed_log keeping only the failure it is given
handle_failed_log_keep_last(p, original_line, reason, message) ==
  [stats |-> [p.stats EXCEPT !.failed = @ + 1],
   failed_logs |->
     <<[timestamp |-> NowStamp, original_line |-> strip(original_line),
        reason |-> reason, message |-> message]>>]

\* _handle_failed_log on the parser state p = [stats, failed_logs]
handle_failed_log(p, original_line, reason, message) ==
  [stats |-> [p.stats EXCEPT !.failed = @ + 1],
   failed_logs |-> Append(p.failed_logs,
     [timestamp |-> NowStamp, original_line |-> strip(original_line),
      reason |-> reason, message |-> message])]

Message(text, err, line) == [text |-> text, err |-> err, line |-> line]

\* parse_log_line(line) on the parser state p: the value returned (PyNone
\* for None), the exception that escapes ("" for none) and the state left
parse_log_line(p, line) ==
  IF line.t # "str"
    THEN \* json.loads raises TypeError; the handler's line.strip() raises
         [ret |-> PyNone, raised |-> "AttributeError", p |-> p]
  ELSE
    LET r == loads(line.text) IN
    IF ~r.ok
      THEN [ret |-> PyNone, raised |-> "",
            p |-> handle_failed_log(p, line.text, "json_decode_error",
                    Message("Malformed JSON log line: ", r.err, strip(line.text)))]
    ELSE
      LET valid == validate_log_entry(r.v) IN
      IF valid = "True"
        THEN [ret |-> r.v, raised |-> "",
              p |-> [p EXCEPT !.stats.parsed = @ + 1]]
      ELSE IF valid = "False"
        THEN [ret |-> PyNone, raised |-> "",
              p |-> handle_failed_log(p, line.text, "validation_failed",
                      Message("Validation failed for log entry: ", "", line.text))]
      ELSE [ret |-> PyNone, raised |-> "",
            p |-> handle_failed_log(p, line.text, "unexpected_error",
                    Message("Unexpected error parsing log line: ", valid,
                            strip(line.text)))]

\* ---------------------------------------------------------- LogPipeline

\* dict.get(key, default) of a Python dict value
PyGet(x, key, default) == IF key \in DOMAIN x.d THEN x.d[key] ELSE default

\* _parse_user_agent testing 'iPad' after the other mobile words
parse_user_agent_mobile_first(user_agent) ==
  LET has(m) == Contains(m, user_agent)
      device_type ==
        IF has("Mobile") \/ has("Android") \/ has("iPhone") THEN "Mobile"
        ELSE IF has("iPad") THEN "Tablet"
        ELSE IF has("Windows") \/ has("Macintosh") \/ has("X11") \/ has("Linux")
          THEN "Desktop"
        ELSE "Unknown"
      os_name ==
        IF has("Windows NT 10.0") THEN "Windows 10"
        ELSE IF has("Windows NT") THEN "Windows (Older)"
        ELSE IF has("Macintosh; Intel Mac OS X") THEN "macOS"
        ELSE IF has("Android") THEN "Android"
        ELSE IF has("iPhone") \/ has("iPad") THEN "iOS"
        ELSE IF has("Ubuntu") \/ has("Linux") THEN "Linux"
        ELSE "Unknown"
  IN [device_type |-> device_type, os_name |-> os_name]

\* _parse_user_agent testing 'Ubuntu' and 'Linux' before 'Android'
parse_user_agent_linux_first(user_agent) ==
  LET has(m) == Contains(m, user_agent)
      device_type ==
        IF has("Mobile") \/ has("Android") \/ has("iPhone") \/ has("iPad")
          THEN (IF has("iPad") THEN "Tablet" ELSE "Mobile")
        ELSE IF has("Windows") \/ has("Macintosh") \/ has("X11") \/ has("Linux")
          THEN "Desktop"
        ELSE "Unknown"
      os_name ==
        IF has("Windows NT 10.0") THEN "Windows 10"
        ELSE IF has("Windows NT") THEN "Windows (Older)"
        ELSE IF has("Macintosh; Intel Mac OS X") THEN "macOS"
        ELSE IF has("Ubuntu") \/ has("Linux") THEN "Linux"
        ELSE IF has("Android") THEN "Android"
        ELSE IF has("iPhone") \/ has("iPad") THEN "iOS"
        ELSE "Unknown"
  IN [device_type |-> device_type, os_name |-> os_name]

\* _parse_user_agent
parse_user_agent(user_agent) ==
  LET has(m) == Contains(m, user_agent)
      device_type ==
        IF has("Mobile") \/ has("Android") \/ has("iPhone") \/ has("iPad")
          THEN (IF has("iPad") THEN "Tablet" ELSE "Mobile")
        ELSE IF has("Windows") \/ has("Macintosh") \/ has("X11") \/ has("Linux")
          THEN "Desktop"
        ELSE "Unknown"
      os_name ==
        IF has("Windows NT 10.0") THEN "Windows 10"
        ELSE IF has("Windows NT") THEN "Windows (Older)"
        ELSE IF has("Macintosh; Intel Mac OS X") THEN "macOS"
        ELSE IF has("Android") THEN "Android"
        ELSE IF has("iPhone") \/ has("iPad") THEN "iOS"
        ELSE IF has("Ubuntu") \/ has("Linux") THEN "Linux"
        ELSE "Unknown"
  IN [device_type |-> device_type, os_name |-> os_name]

\* _enrich_log_entry of a parsed entry (a Python dict value)
enrich_log_entry(entry) ==
  LET user_agent_info == parse_user_agent(PyGet(entry, "user_agent", PyStr("")).s)
      e1 == DictSet(entry.d, "device_type", PyStr(user_agent_info.device_type))
      e2 == DictSet(e1, "os_name", PyStr(user_agent_info.os_name))
      e3 == DictSet(e2, "location", PyGet(PyDict(e2), "location", PyStr("Unknown")))
  IN PyDict(e3)

\* counts[key] = counts.get(key, 0) + 1
Bump(counts, key) ==
  [x \in DOMAIN counts \cup {key} |->
     IF x = key THEN (IF key \in DOMAIN counts THEN counts[key] ELSE 0) + 1
     ELSE counts[x]]

\* the value can stand on the right of `number + value`
IsNumber(x) == x.t \in {"int", "bool"}
NumberOf(x) == x.i
\* the value can be a dict key
IsHashable(x) == x.t \notin {"list", "dict"}

\* lines 26-36 with {} for the hourly_traffic of line 28
InitAggregationsNoHours ==
  [event_type_counts |-> EmptyDict,
   hourly_traffic |-> EmptyDict,
   location_traffic |-> EmptyDict,
   device_type_traffic |-> EmptyDict,
   os_traffic |-> EmptyDict,
   purchase_summary |-> [total_amount |-> 0, count |-> 0],
   error_counts |-> EmptyDict,
   session_duration_sum |-> 0,
   session_duration_count |-> 0]

\* lines 26-36: self.realtime_aggregations
InitAggregations ==
  [event_type_counts |-> EmptyDict,
   hourly_traffic |-> [hour \in 0..23 |-> 0],
   location_traffic |-> EmptyDict,
   device_type_traffic |-> EmptyDict,
   os_traffic |-> EmptyDict,
   purchase_summary |-> [total_amount |-> 0, count |-> 0],
   error_counts |-> EmptyDict,
   session_duration_sum |-> 0,
   session_duration_count |-> 0]

\* lines 106-128 without lines 113-114: no hour bucket is raised
UpdateCommonNoHour(a, entry) ==
  [a EXCEPT
     !.event_type_counts = Bump(@, PyGet(entry, "event_type", PyNone)),
     !.location_traffic = Bump(@, PyGet(entry, "location", PyNone)),
     !.device_type_traffic = Bump(@, PyGet(entry, "device_type", PyNone)),
     !.os_traffic = Bump(@, PyGet(entry, "os_name", PyNone))]

\* lines 106-128 with hour 0 counted in the except clause of line 115
UpdateCommonDefaultHour(a, entry) ==
  LET parsed == fromisoformat(PyGet(entry, "timestamp", PyNone)) IN
  [a EXCEPT
     !.event_type_counts = Bump(@, PyGet(entry, "event_type", PyNone)),
     !.hourly_traffic = Bump(@, IF parsed.exc = "" THEN parsed.hour ELSE 0),
     !.location_traffic = Bump(@, PyGet(entry, "location", PyNone)),
     !.device_type_traffic = Bump(@, PyGet(entry, "device_type", PyNone)),
     !.os_traffic = Bump(@, PyGet(entry, "os_name", PyNone))]

\* lines 106-128 without lines 127-128: no OS is counted
UpdateCommonNoOs(a, entry) ==
  LET parsed == fromisoformat(PyGet(entry, "timestamp", PyNone)) IN
  [a EXCEPT
     !.event_type_counts = Bump(@, PyGet(entry, "event_type", PyNone)),
     !.hourly_traffic = IF parsed.exc = "" THEN Bump(@, parsed.hour) ELSE @,
     !.location_traffic = Bump(@, PyGet(entry, "location", PyNone)),
     !.device_type_traffic = Bump(@, PyGet(entry, "device_type", PyNone))]

\* lines 106-128: the counters every record updates
UpdateCommon(a, entry) ==
  LET event_type == PyGet(entry, "event_type", PyNone)
      timestamp_str == PyGet(entry, "timestamp", PyNone)
      location == PyGet(entry, "location", PyNone)
      device_type == PyGet(entry, "device_type", PyNone)
      os_name == PyGet(entry, "os_name", PyNone)
      parsed == fromisoformat(timestamp_str)
  IN [a EXCEPT
        !.event_type_counts = Bump(@, event_type),
        !.hourly_traffic = IF parsed.exc = "" THEN Bump(@, parsed.hour) ELSE @,
        !.location_traffic = Bump(@, location),
        !.device_type_traffic = Bump(@, device_type),
        !.os_traffic = Bump(@, os_name)]

\* lines 130-134 without the test of line 131: every record is a purchase
UpdatePurchaseAnyEvent(r, entry) ==
  IF r.raised # "" THEN r
  ELSE LET total_amount == PyGet(entry.d["data"], "total_amount", PyInt(0)) IN
       IF total_amount.t \notin {"int", "bool"} THEN [r EXCEPT !.raised = "TypeError"]
       ELSE [r EXCEPT
               !.agg.purchase_summary.total_amount = @ + total_amount.i,
               !.agg.purchase_summary.count = @ + 1]

\* lines 130-134: the purchase summary
UpdatePurchase(r, entry) ==
  IF r.raised # "" \/ PyGet(entry, "event_type", PyNone) # PyStr("purchase") THEN r
  ELSE LET total_amount == PyGet(entry.d["data"], "total_amount", PyInt(0)) IN
       IF ~IsNumber(total_amount) THEN [r EXCEPT !.raised = "TypeError"]
       ELSE [r EXCEPT
               !.agg.purchase_summary.total_amount = @ + NumberOf(total_amount),
               !.agg.purchase_summary.count = @ + 1]

\* lines 136-140 without the test of line 137: every record is an error
UpdateErrorAnyEvent(r, entry) ==
  IF r.raised # "" THEN r
  ELSE LET error_code == PyGet(entry.d["data"], "error_code", PyStr("UNKNOWN_ERROR")) IN
       IF error_code.t \in {"list", "dict"} THEN [r EXCEPT !.raised = "TypeError"]
       ELSE [r EXCEPT !.agg.error_counts = Bump(@, error_code)]

\* lines 136-140 with entry['data']['error_code'] on line 138: no default
UpdateErrorNoDefault(r, entry) ==
  IF r.raised # "" \/ PyGet(entry, "event_type", PyNone) # PyStr("error") THEN r
  ELSE IF "error_code" \notin DOMAIN entry.d["data"].d
    THEN [r EXCEPT !.raised = "KeyError"]
  ELSE LET error_code == entry.d["data"].d["error_code"] IN
       IF error_code.t \in {"list", "dict"} THEN [r EXCEPT !.raised = "TypeError"]
       ELSE [r EXCEPT !.agg.error_counts = Bump(@, error_code)]

\* lines 136-140: the error counters
UpdateError(r, entry) ==
  IF r.raised # "" \/ PyGet(entry, "event_type", PyNone) # PyStr("error") THEN r
  ELSE LET error_code == PyGet(entry.d["data"], "error_code", PyStr("UNKNOWN_ERROR")) IN
       IF ~IsHashable(error_code) THEN [r EXCEPT !.raised = "TypeError"]
       ELSE [r EXCEPT !.agg.error_counts = Bump(@, error_code)]

\* lines 142-146 with -= for += on line 145
UpdateSessionSubtract(r, entry) ==
  IF r.raised # "" \/ PyGet(entry, "event_type", PyNone) # PyStr("user_session_end")
    THEN r
  ELSE LET duration == PyGet(entry.d["data"], "duration_seconds", PyInt(0)) IN
       IF duration.t \notin {"int", "bool"} THEN [r EXCEPT !.raised = "TypeError"]
       ELSE [r EXCEPT
               !.agg.session_duration_sum = @ - duration.i,
               !.agg.session_duration_count = @ + 1]

\* lines 142-146 counting only the sessions that have a duration
UpdateSessionCountsDurations(r, entry) ==
  IF r.raised # "" \/ PyGet(entry, "event_type", PyNone) # PyStr("user_session_end")
    THEN r
  ELSE IF "duration_seconds" \notin DOMAIN entry.d["data"].d THEN r
  ELSE LET duration == entry.d["data"].d["duration_seconds"] IN
       IF duration.t \notin {"int", "bool"} THEN [r EXCEPT !.raised = "TypeError"]
       ELSE [r EXCEPT
               !.agg.session_duration_sum = @ + duration.i,
               !.agg.session_duration_count = @ + 1]

\* lines 142-146: the session durations
UpdateSession(r, entry) ==
  IF r.raised # "" \/ PyGet(entry, "event_type", PyNone) # PyStr("user_session_end")
    THEN r
  ELSE LET duration == PyGet(entry.d["data"], "duration_seconds", PyInt(0)) IN
       IF ~IsNumber(duration) THEN [r EXCEPT !.raised = "TypeError"]
       ELSE [r EXCEPT
               !.agg.session_duration_sum = @ + NumberOf(duration),
               !.agg.session_duration_count = @ + 1]

\* line 116: the except clause of lines 110-116 is entered
HourWarning(entry) == fromisoformat(PyGet(entry, "timestamp", PyNone)).exc # ""

\* _update_aggregations: the aggregations left, the exception that escapes
\* ("" for none) and whether the warning of line 116 is logged; the
\* updates made before a raise stay made
update_aggregations(a, entry) ==
  UpdateSession(
    UpdateError(
      UpdatePurchase([agg |-> UpdateCommon(a, entry), raised |-> "",
                      warned |-> HourWarning(entry)], entry),
      entry),
    entry)

\* x / y: the quotient, kept as its two terms, or the exception raised
Divide(x, y) ==
  [exc |-> IF y = 0 THEN "ZeroDivisionError" ELSE "", dividend |-> x, divisor |-> y]

\* the line that says no average is available (line 241)
NotAvailable == [text |-> "N/A", dividend |-> 0, divisor |-> 0]

\* display_realtime_aggregations without the test of line 237: the
\* division of line 238 is always evaluated
display_unguarded(a) ==
  LET avg_duration == Divide(a.session_duration_sum, a.session_duration_count) IN
  [raised |-> avg_duration.exc,
   average |-> [text |-> "secondes", dividend |-> avg_duration.dividend,
                divisor |-> avg_duration.divisor]]

\* display_realtime_aggregations: the exception that escapes ("" for
\* none) and the average session duration it logs (lines 237-241)
display_realtime_aggregations(a) ==
  IF a.session_duration_count > 0
    THEN LET avg_duration == Divide(a.session_duration_sum, a.session_duration_count) IN
         [raised |-> avg_duration.exc,
          average |-> [text |-> "secondes", dividend |-> avg_duration.dividend,
                       divisor |-> avg_duration.divisor]]
    ELSE [raised |-> "", average |-> NotAvailable]

\* f.readline() at offset pos: the text up to and including the next
\* newline, or up to the end of the file when no newline follows
RECURSIVE LineEnd(_, _)
LineEnd(f, i) ==
  IF i > Len(f) THEN Len(f)
  ELSE IF IsTok(f[i], "w", "\n") THEN i
  ELSE LineEnd(f, i + 1)
readline(f, pos) == SubSeq(f, pos + 1, LineEnd(f, pos + 1))

\* ------------------------------------------------- EcommerceApp (producer)

\* the order in which json.dumps meets the keys of the dicts log_event builds
KeyOrder ==
  <<"timestamp", "event_type", "session_id", "user_id", "ip_address",
    "user_agent", "location", "data", "page_url", "total_amount",
    "error_code", "duration_seconds", "items", "product_id", "quantity",
    "payment_method", "coupon", "gift", "campaign">>

RECURSIVE dumps(_), DumpsItems(_, _), DumpsMembers(_, _, _)

\* json.dumps with its default separators ", " and ": "
dumps(x) ==
  IF x.t = "str" THEN <<S(x.s)>>
  ELSE IF x.t = "int" THEN <<N(x.i)>>
  ELSE IF x.t = "bool" THEN <<L(IF x.i = 1 THEN "true" ELSE "false")>>
  ELSE IF x.t = "NoneType" THEN <<L("null")>>
  ELSE IF x.t = "list" THEN <<P("[")>> \o DumpsItems(x.q, 1) \o <<P("]")>>
  ELSE <<P("{")>> \o DumpsMembers(x.d, 1, TRUE) \o <<P("}")>>

DumpsItems(q, i) ==
  IF i > Len(q) THEN <<>>
  ELSE (IF i > 1 THEN <<P(","), SP>> ELSE <<>>) \o dumps(q[i]) \o DumpsItems(q, i + 1)

DumpsMembers(d, i, first) ==
  IF i > Len(KeyOrder) THEN <<>>
  ELSE IF KeyOrder[i] \notin DOMAIN d THEN DumpsMembers(d, i + 1, first)
  ELSE (IF first THEN <<>> ELSE <<P(","), SP>>)
       \o <<S(KeyOrder[i]), P(":"), SP>> \o dumps(d[KeyOrder[i]])
       \o DumpsMembers(d, i + 1, FALSE)

\* the log_entry of log_event
log_entry(timestamp, event_type, user_id, user_agent, location, data) ==
  PyDict("timestamp" :> PyStr(timestamp) @@ "event_type" :> PyStr(event_type)
         @@ "session_id" :> PyStr("2cf322fb") @@ "user_id" :> user_id
         @@ "ip_address" :> PyStr("234.234.88.136")
         @@ "user_agent" :> PyStr(user_agent) @@ "location" :> location
         @@ "data" :> data)

Uid == PyStr("94d17b5d")
UaWin == "Mozilla/5.0 (Windows NT 10.0; Win64; x64) Chrome/100.0"
UaIpad == "Mozilla/5.0 (iPad; CPU OS 13_5 like Mac OS X) CriOS/83.0 Mobile/15E148"
UaAndroid == "Mozilla/5.0 (Linux; Android 10; SM-G973F) Mobile Safari/537.36"

\* records that satisfy the schema
ValidEntries ==
  { log_entry("2025-07-03T16:29:10.565498", "page_view", Uid, UaWin, PyStr("France"),
              PyDict("page_url" :> PyStr("/"))),
    log_entry("2025-07-03T00:05:00", "purchase", Uid, UaIpad, PyStr("USA"),
              PyDict("total_amount" :> PyInt(5))),
    log_entry("2025-07-03T23:59:59", "purchase", Uid, UaWin, PyStr("France"),
              PyDict("total_amount" :> PyInt(-3))),
    log_entry("2025-07-03T16:29:10.565498", "purchase", Uid, UaAndroid, PyStr("USA"),
              PyDict(EmptyDict)),
    log_entry("2025-07-03T00:05:00", "purchase", Uid, UaWin, PyStr("USA"),
              PyDict("total_amount" :> PyStr("12.50"))),
    log_entry("2025-07-03T23:59:59", "error", Uid, UaAndroid, PyStr("France"),
              PyDict("error_code" :> PyStr("LOGIN_FAILED"))),
    log_entry("2025-07-03T16:29:10.565498", "user_session_end", Uid, UaWin, PyStr("Japan"),
              PyDict("duration_seconds" :> PyInt(30))),
    log_entry("2025-07-03T23:59:59", "user_session_end", Uid, UaIpad, PyStr("USA"),
              PyDict("duration_seconds" :> PyInt(-5))) }

\* a purchase as _checkout logs it (a list of items in data), with a
\* null, a boolean and a key beyond the eight required ones
CheckoutEntry ==
  PyDict(log_entry("2025-07-03T16:29:10.565498", "purchase", Uid, UaAndroid,
                   PyStr("Japan"),
                   PyDict("total_amount" :> PyInt(7)
                          @@ "items" :> PyList(<<PyDict("product_id" :> PyStr("P001")
                                                        @@ "quantity" :> PyInt(2)),
                                                 PyDict("product_id" :> PyStr("P002")
                                                        @@ "quantity" :> PyInt(1))>>)
                          @@ "payment_method" :> PyStr("paypal")
                          @@ "coupon" :> PyNone
                          @@ "gift" :> PyBool(TRUE))).d
         @@ "campaign" :> PyStr("summer"))

\* JSON objects that violate the schema
InvalidEntries ==
  { PyDict([k \in DOMAIN log_entry("2025-07-03T00:05:00", "page_view", Uid, UaWin,
                    PyStr("USA"), PyDict(EmptyDict)).d \ {"timestamp"} |->
             log_entry("2025-07-03T00:05:00", "page_view", Uid, UaWin,
                    PyStr("USA"), PyDict(EmptyDict)).d[k]]),
    log_entry("invalid-date", "page_view", Uid, UaWin, PyStr("USA"), PyDict(EmptyDict)),
    log_entry("2025-07-03T16:29:10.565498", "page_view", Uid, UaWin, PyStr("USA"),
              PyStr("not_a_dict")) }

\* the text of lines that are no JSON object, or no JSON at all
OtherLines ==
  { <<N(42)>>, <<X("Simulation"), SP, X("terminee.")>> }

\* the text of every line the producer may append, without its terminator
Lines == {dumps(e) : e \in ValidEntries \cup InvalidEntries} \cup OtherLines

\* -------------------------------------------------------------- logging

\* logging.basicConfig(handlers=handlers) on a root logger whose handlers
\* are root: it configures nothing when root already has a handler
basicConfig(root, handlers) == IF root # <<>> THEN root ELSE handlers

\* the root logger once LogParser() has run, in a fresh process
ParserConstructed == basicConfig(<<>>, <<"parser.log", "stderr">>)

\* the root logger once LogPipeline() has run: line 20 constructs the
\* LogParser, lines 39-46 then call basicConfig for the pipeline
PipelineConstructed == basicConfig(ParserConstructed, <<"pipeline.log", "stderr">>)

\* ----------------------------------------------------------- the state

MaxAppends == 2
MaxCalls == 2
ReportEvery == 100

\* what app.log may hold before the pipeline starts
PreContents ==
  { <<>>,
    <<X("Simulation"), SP, X("terminee."), NL>>,
    dumps(log_entry("2025-07-03T23:59:59", "purchase", Uid, UaWin, PyStr("Japan"),
                    PyDict("total_amount" :> PyInt(7)))) \o <<NL>> }

VARIABLES
  exists,                \* app.log exists
  file,                  \* the text of app.log
  pending,               \* the rest of a line the producer has written in part
  written,               \* history: the lines appended, each with its offset
  pc,                    \* where process_logs_streaming is
  pos,                   \* the offset of the open file f
  seekLen,               \* history: the offset the seek to the end gave (-1 before)
  line,                  \* the local line
  parsed_log,            \* the local parsed_log, then enriched_log
  processed_logs_count,  \* LogPipeline.processed_logs_count
  parser,                \* LogParser: [stats, failed_logs]
  agg,                   \* LogPipeline.realtime_aggregations
  reports,               \* number of periodic reports displayed
  delivered,             \* history: the arguments of parse_log_line, in call order
  raised,                \* the exception that ended the run ("" for none)
  start_time,            \* LogPipeline.start_time is set (it is None before)
  final,                 \* the displays made on KeyboardInterrupt, in call order
  existed,               \* history: app.log existed when the pipeline started
  root_handlers,         \* the handlers of the root logger
  hour_warnings          \* number of warnings _update_aggregations has logged

vars ==
  <<exists, file, pending, written, pc, pos, seekLen, line, parsed_log,
    processed_logs_count, parser, agg, reports, delivered, raised,
    start_time, final, existed, root_handlers, hour_warnings>>

\* the variables only the start and the end of a run touch
runVars == <<start_time, final, existed, root_handlers, hour_warnings>>

\* where a record logged through logging.getLogger(__name__) of a module
\* is written: the module loggers have no handler and propagate to root
Sinks(module) == {root_handlers[i] : i \in 1..Len(root_handlers)}

producerVars == <<exists, file, pending, written>>
readerVars ==
  <<pc, pos, seekLen, line, parsed_log, processed_logs_count, parser, agg,
    reports, delivered, raised>>

InitParser == [stats |-> [parsed |-> 0, failed |-> 0], failed_logs |-> <<>>]

Init ==
  /\ exists \in BOOLEAN
  /\ file \in (IF exists THEN PreContents ELSE {<<>>})
  /\ pending = <<>>
  /\ written = <<>>
  /\ pc = "start"
  /\ pos = 0
  /\ seekLen = -1
  /\ line = <<>>
  /\ parsed_log = PyNone
  /\ processed_logs_count = 0
  /\ parser = InitParser
  /\ agg = InitAggregations
  /\ reports = 0
  /\ delivered = <<>>
  /\ raised = ""
  /\ start_time = FALSE
  /\ final = <<>>
  /\ existed = exists
  /\ root_handlers = PipelineConstructed
  /\ hour_warnings = 0

\* ---------------------------------------------------------- the producer

\* setup_logging: logging.FileHandler('app.log') creates the file
CreateFile ==
  /\ ~exists
  /\ exists' = TRUE
  /\ UNCHANGED <<file, pending, written>>
  /\ UNCHANGED readerVars
  /\ UNCHANGED runVars

\* logger.info(text): the handler writes text and its terminator at once
AppendLine ==
  /\ exists /\ pending = <<>> /\ Len(written) < MaxAppends
  /\ \E l \in Lines :
       /\ file' = file \o l \o <<NL>>
       /\ written' = Append(written, [text |-> l \o <<NL>>, at |-> Len(file)])
  /\ UNCHANGED <<exists, pending>>
  /\ UNCHANGED readerVars
  /\ UNCHANGED runVars

\* ------------------------------------------------- process_logs_streaming

\* lines 154-155: the start is logged and start_time is set
Start ==
  /\ pc = "start"
  /\ start_time' = TRUE
  /\ pc' = "check"
  /\ UNCHANGED <<pos, seekLen, line, parsed_log, processed_logs_count, parser,
                 agg, reports, delivered, raised, final, existed, root_handlers, hour_warnings>>
  /\ UNCHANGED producerVars

\* line 158: while not os.path.exists(...)
CheckExists ==
  /\ pc = "check"
  /\ pc' = IF exists THEN "open" ELSE "wait"
  /\ UNCHANGED <<pos, seekLen, line, parsed_log, processed_logs_count, parser,
                 agg, reports, delivered, raised>>
  /\ UNCHANGED producerVars
  /\ UNCHANGED runVars

\* line 160: time.sleep(5)
WaitFile ==
  /\ pc = "wait"
  /\ pc' = "check"
  /\ UNCHANGED <<pos, seekLen, line, parsed_log, processed_logs_count, parser,
                 agg, reports, delivered, raised>>
  /\ UNCHANGED producerVars
  /\ UNCHANGED runVars

\* line 163: open(self.log_file_path, 'r')
OpenFile ==
  /\ pc = "open"
  /\ pos' = 0
  /\ pc' = "seek"
  /\ UNCHANGED <<seekLen, line, parsed_log, processed_logs_count, parser, agg,
                 reports, delivered, raised>>
  /\ UNCHANGED producerVars
  /\ UNCHANGED runVars

\* the offset when line 165 is left out: the start of the file
SeekStart(f) == 0

\* the offset f.seek(0, os.SEEK_END) moves to
SeekEnd(f) == Len(f)

\* line 165: f.seek(0, os.SEEK_END)
Seek ==
  /\ pc = "seek"
  /\ pos' = SeekEnd(file)
  /\ seekLen' = SeekEnd(file)
  /\ pc' = "readline"
  /\ UNCHANGED <<line, parsed_log, processed_logs_count, parser, agg, reports,
                 delivered, raised>>
  /\ UNCHANGED producerVars
  /\ UNCHANGED runVars

\* lines 169-173: line = f.readline(); if not line: sleep, continue
ReadLine ==
  /\ pc = "readline"
  /\ line' = readline(file, pos)
  /\ pos' = pos + Len(line')
  /\ pc' = IF line' = <<>> THEN "sleep" ELSE "count"
  /\ UNCHANGED <<seekLen, parsed_log, processed_logs_count, parser, agg, reports,
                 delivered, raised>>
  /\ UNCHANGED producerVars
  /\ UNCHANGED runVars

\* line 172: time.sleep(interval_seconds)
Sleep ==
  /\ pc = "sleep"
  /\ pc' = "readline"
  /\ UNCHANGED <<pos, seekLen, line, parsed_log, processed_logs_count, parser,
                 agg, reports, delivered, raised>>
  /\ UNCHANGED producerVars
  /\ UNCHANGED runVars

\* line 175: self.processed_logs_count += 1
Count ==
  /\ pc = "count"
  /\ processed_logs_count' = processed_logs_count + 1
  /\ pc' = "parse"
  /\ UNCHANGED <<pos, seekLen, line, parsed_log, parser, agg, reports, delivered,
                 raised>>
  /\ UNCHANGED producerVars
  /\ UNCHANGED runVars

\* `if x:` for the values parse_log_line returns
Truthy(x) == IF x.t = "dict" THEN DOMAIN x.d # {} ELSE x.t # "NoneType"

\* line 176: parsed_log = self.parser.parse_log_line(line)
Parse ==
  /\ pc = "parse"
  /\ LET r == parse_log_line(parser, StrArg(line)) IN
       /\ parser' = r.p
       /\ parsed_log' = r.ret
       /\ raised' = r.raised
       /\ pc' = IF r.raised # "" THEN "raised"
                ELSE IF Truthy(r.ret) THEN "enrich" ELSE "skip"
  /\ delivered' = Append(delivered, [arg |-> StrArg(line), at |-> pos - Len(line)])
  /\ UNCHANGED <<pos, seekLen, line, processed_logs_count, agg, reports>>
  /\ UNCHANGED producerVars
  /\ UNCHANGED runVars

\* line 179: enriched_log = self._enrich_log_entry(parsed_log)
Enrich ==
  /\ pc = "enrich"
  /\ parsed_log' = enrich_log_entry(parsed_log)
  /\ pc' = "aggregate"
  /\ UNCHANGED <<pos, seekLen, line, processed_logs_count, parser, agg, reports,
                 delivered, raised>>
  /\ UNCHANGED producerVars
  /\ UNCHANGED runVars

\* line 180: self._update_aggregations(enriched_log)
Aggregate ==
  /\ pc = "aggregate"
  /\ LET r == update_aggregations(agg, parsed_log) IN
       /\ agg' = r.agg
       /\ raised' = r.raised
       /\ hour_warnings' = IF r.warned THEN hour_warnings + 1 ELSE hour_warnings
       /\ pc' = IF r.raised # "" THEN "raised" ELSE "report"
  /\ UNCHANGED <<pos, seekLen, line, parsed_log, processed_logs_count, parser,
                 reports, delivered, start_time, final, existed, root_handlers>>
  /\ UNCHANGED producerVars

\* line 183: the warning for a line that was not parsed
Skip ==
  /\ pc = "skip"
  /\ pc' = "report"
  /\ UNCHANGED <<pos, seekLen, line, parsed_log, processed_logs_count, parser,
                 agg, reports, delivered, raised>>
  /\ UNCHANGED producerVars
  /\ UNCHANGED runVars

\* lines 186-188: the report every 100 processed lines
Report ==
  /\ pc = "report"
  /\ LET due == processed_logs_count % ReportEvery = 0
         r == display_realtime_aggregations(agg) IN
       /\ reports' = IF due /\ r.raised = "" THEN reports + 1 ELSE reports
       /\ raised' = IF due THEN r.raised ELSE raised
       /\ pc' = IF due /\ r.raised # "" THEN "raised" ELSE "readline"
  /\ UNCHANGED <<pos, seekLen, line, parsed_log, processed_logs_count, parser,
                 agg, delivered>>
  /\ UNCHANGED producerVars
  /\ UNCHANGED runVars

Next ==
  \/ CreateFile
  \/ Start
  \/ AppendLine
  \/ CheckExists
  \/ WaitFile
  \/ OpenFile
  \/ Seek
  \/ ReadLine
  \/ Sleep
  \/ Count
  \/ Parse
  \/ Enrich
  \/ Aggregate
  \/ Skip
  \/ Report

Spec == Init /\ [][Next]_vars

\* ------------------------------------- a producer that writes in pieces

\* where the text of a line (terminator included) may be cut in two
SplitPoints(text) == {k \in 1..(Len(text) - 1) : k \in {1, 3, Len(text) - 1}}

\* the first piece of a line reaches the file
AppendPrefix ==
  /\ exists /\ pending = <<>> /\ Len(written) < MaxAppends
  /\ \E l \in Lines : \E k \in SplitPoints(l \o <<NL>>) :
       /\ file' = file \o SubSeq(l \o <<NL>>, 1, k)
       /\ pending' = SubSeq(l \o <<NL>>, k + 1, Len(l) + 1)
       /\ written' = Append(written, [text |-> l \o <<NL>>, at |-> Len(file)])
  /\ UNCHANGED exists
  /\ UNCHANGED readerVars
  /\ UNCHANGED runVars

\* the rest of the line reaches the file
AppendRest ==
  /\ pending # <<>>
  /\ file' = file \o pending
  /\ pending' = <<>>
  /\ UNCHANGED <<exists, written>>
  /\ UNCHANGED readerVars
  /\ UNCHANGED runVars

NextSplit ==
  \/ Next
  \/ AppendPrefix
  \/ AppendRest

SpecSplit == Init /\ [][NextSplit]_vars

\* ------------------------------------------ __main__ and Ctrl+C

MaxTailed == 1

\* the steps of process_logs_streaming
Reader ==
  \/ Start
  \/ CheckExists
  \/ WaitFile
  \/ OpenFile
  \/ Seek
  \/ ReadLine
  \/ Sleep
  \/ Count
  \/ Parse
  \/ Enrich
  \/ Aggregate
  \/ Skip
  \/ Report

\* where process_logs_streaming can be when the signal arrives: anywhere
\* between two of its steps, nothing in it defers or masks the signal
Running ==
  {"start", "check", "wait", "open", "seek", "readline", "sleep", "count",
   "parse", "enrich", "aggregate", "skip", "report"}

\* the producer, for the runs that are interrupted
AppendTailed == Len(written) < MaxTailed /\ AppendLine

\* KeyboardInterrupt is raised in process_logs_streaming and leaves it;
\* lines 257-259: __main__ catches it, sets end_time and logs the stop
Interrupt ==
  /\ pc \in Running
  /\ pc' = "final_metrics"
  /\ UNCHANGED <<pos, seekLen, line, parsed_log, processed_logs_count, parser,
                 agg, reports, delivered, raised>>
  /\ UNCHANGED producerVars
  /\ UNCHANGED runVars

\* what a display reads of the pipeline when it is called
Displayed == [processed |-> processed_logs_count, stats |-> parser.stats, agg |-> agg]

\* the final display_performance_metrics call leaving out line 260
FinalMetricsSkipped ==
  /\ pc = "final_metrics"
  /\ pc' = "final_aggregations"
  /\ UNCHANGED <<pos, seekLen, line, parsed_log, processed_logs_count, parser,
                 agg, reports, delivered, raised, start_time, final, existed,
                 root_handlers, hour_warnings>>
  /\ UNCHANGED producerVars

\* line 260: display_performance_metrics(), which prints only when
\* start_time is set (line 193)
FinalMetrics ==
  /\ pc = "final_metrics"
  /\ final' = Append(final, [call |-> "display_performance_metrics",
                             printed |-> start_time, state |-> Displayed])
  /\ pc' = "final_aggregations"
  /\ UNCHANGED <<pos, seekLen, line, parsed_log, processed_logs_count, parser,
                 agg, reports, delivered, raised, start_time, existed,
                 root_handlers, hour_warnings>>
  /\ UNCHANGED producerVars

\* line 261: display_realtime_aggregations()
FinalAggregations ==
  /\ pc = "final_aggregations"
  /\ LET r == display_realtime_aggregations(agg) IN
       /\ final' = IF r.raised # "" THEN final
                   ELSE Append(final, [call |-> "display_realtime_aggregations",
                                       printed |-> TRUE, state |-> Displayed,
                                       average |-> r.average])
       /\ raised' = r.raised
       /\ pc' = IF r.raised # "" THEN "raised" ELSE "final_stats"
  /\ UNCHANGED <<pos, seekLen, line, parsed_log, processed_logs_count, parser,
                 agg, reports, delivered, start_time, existed,
                 root_handlers, hour_warnings>>
  /\ UNCHANGED producerVars

\* lines 262-267: the parser's statistics and failed lines are logged and
\* the process exits
FinalStats ==
  /\ pc = "final_stats"
  /\ pc' = "exit"
  /\ UNCHANGED <<pos, seekLen, line, parsed_log, processed_logs_count, parser,
                 agg, reports, delivered, raised>>
  /\ UNCHANGED producerVars
  /\ UNCHANGED runVars

NextInterrupt ==
  \/ CreateFile
  \/ AppendTailed
  \/ Reader
  \/ Interrupt
  \/ FinalMetrics
  \/ FinalAggregations
  \/ FinalStats

SpecInterrupt == Init /\ [][NextInterrupt]_vars

\* ------------------------------------ _enrich_log_entry called on its own

MarkerOrder ==
  <<"Mobile", "Android", "iPhone", "iPad", "Windows", "Macintosh", "X11", "Linux",
    "Windows NT 10.0", "Windows NT", "Macintosh; Intel Mac OS X", "Ubuntu">>

RECURSIVE JoinFrom(_, _)
\* a user agent made of the words of present, from the i-th on
JoinFrom(present, i) ==
  IF i > Len(MarkerOrder) THEN "Gecko"
  ELSE (IF MarkerOrder[i] \in present THEN "(" \o MarkerOrder[i] \o ") " ELSE "")
       \o JoinFrom(present, i + 1)

\* the user agents classified: those of the producer, the empty string
\* and one for every choice of the words looked for
UserAgents ==
  DOMAIN SubstringTable \cup {""} \cup {JoinFrom(present, 1) : present \in SUBSET Markers}

\* validated records that differ in everything but the user agent; the
\* last one has keys beyond the eight required ones
Visits(user_agent) ==
  { log_entry("2025-07-03T16:29:10.565498", "page_view", Uid, user_agent,
              PyStr("France"), PyDict("page_url" :> PyStr("/"))),
    log_entry("2025-07-03T00:05:00", "login", PyStr("0b1e33c2"), user_agent,
              PyStr("Japan"), PyDict(EmptyDict)),
    PyDict(log_entry("2025-07-03T23:59:59", "page_view", Uid, user_agent,
                     PyStr("USA"), PyDict(EmptyDict)).d
           @@ "device_type" :> PyStr("Smart TV") @@ "os_name" :> PyStr("Tizen")
           @@ "campaign" :> PyStr("summer")) }

InitEnrich ==
  /\ exists = FALSE
  /\ file = <<>>
  /\ pending = <<>>
  /\ written = <<>>
  /\ pc = "enrich"
  /\ pos = 0
  /\ seekLen = -1
  /\ line = <<>>
  /\ parsed_log \in UNION {Visits(user_agent) : user_agent \in UserAgents}
  /\ processed_logs_count = 0
  /\ parser = InitParser
  /\ agg = InitAggregations
  /\ reports = 0
  /\ delivered = <<>>
  /\ raised = ""
  /\ start_time = FALSE
  /\ final = <<>>
  /\ existed = FALSE
  /\ root_handlers = PipelineConstructed
  /\ hour_warnings = 0

SpecEnrich == InitEnrich /\ [][Enrich]_vars

\* ------------------------------------ parse_log_line called on its own

\* the arguments a caller may pass: the text of a line, with or without
\* its terminator, or a value that is not a str
MoreLines ==
  { <<L("null")>>, <<S("timestamp")>>, <<P("["), P("]")>>,
    <<P("["), S("timestamp"), P("]")>>, <<P("{"), S("timestamp"), P(":")>>,
    <<SP, SP>>, <<>>, <<N(42), SP, N(43)>>,
    dumps(CheckoutEntry),
    dumps(log_entry("2025-07-03T16:29:10.565498", "login", PyNone, UaWin,
                    PyStr("USA"), PyDict(EmptyDict))),
    dumps(log_entry("2025-07-03T00:05:00", "error", Uid, UaIpad, PyStr("Japan"),
                    PyDict("error_code" :> PyList(<<>>)))),
    <<SP>> \o dumps(log_entry("2025-07-03T00:05:00", "login", Uid, UaWin,
                              PyStr("USA"), PyDict(EmptyDict))) \o <<SP>> }

Args ==
  {StrArg(l \o <<NL>>) : l \in Lines \cup MoreLines}
    \cup {StrArg(l) : l \in Lines \cup MoreLines}
    \cup {OtherArg("NoneType"), OtherArg("int")}

InitCalls ==
  /\ exists = FALSE
  /\ file = <<>>
  /\ pending = <<>>
  /\ written = <<>>
  /\ pc = "main"
  /\ pos = 0
  /\ seekLen = -1
  /\ line = <<>>
  /\ parsed_log = PyNone
  /\ processed_logs_count = 0
  /\ parser = InitParser
  /\ agg = InitAggregations
  /\ reports = 0
  /\ delivered = <<>>
  /\ raised = ""
  /\ start_time = FALSE
  /\ final = <<>>
  /\ existed = FALSE
  /\ root_handlers = ParserConstructed
  /\ hour_warnings = 0

\* parsed_data = parser.parse_log_line(log_line), for the next argument
CallParse ==
  /\ pc = "main" /\ raised = "" /\ Len(delivered) < MaxCalls
  /\ \E x \in Args :
       LET r == parse_log_line(parser, x) IN
         /\ parser' = r.p
         /\ parsed_log' = r.ret
         /\ raised' = r.raised
         /\ delivered' = Append(delivered, [arg |-> x, at |-> 0])
  /\ UNCHANGED <<pc, pos, seekLen, line, processed_logs_count, agg, reports>>
  /\ UNCHANGED producerVars
  /\ UNCHANGED runVars

SpecCalls == InitCalls /\ [][CallParse]_vars

\* -------------------------------- _update_aggregations called on its own

\* entry without the key
Without(entry, key) == PyDict([k \in DOMAIN entry.d \ {key} |-> entry.d[k]])

\* valid records whose data lacks the key _update_aggregations reads
DefaultEntries ==
  { log_entry("2025-07-03T00:05:00", "error", Uid, UaWin, PyStr("Japan"),
              PyDict(EmptyDict)),
    log_entry("2025-07-03T16:29:10.565498", "user_session_end", Uid, UaIpad,
              PyStr("France"), PyDict("page_url" :> PyStr("/"))),
    log_entry("2025-07-03T23:59:59", "purchase", Uid, UaWin, PyStr("USA"),
              PyDict("payment_method" :> PyStr("paypal") @@ "coupon" :> PyNone)) }

\* the records a caller may pass: enriched valid records, and the same
\* records with a timestamp that is missing, is no ISO-8601 text or is
\* not a str
UpdateEntries ==
  LET Enriched ==
        {enrich_log_entry(e) : e \in ValidEntries \cup DefaultEntries \cup {CheckoutEntry}}
  IN Enriched
       \cup {Without(e, "timestamp") : e \in Enriched}
       \cup {PyDict(DictSet(e.d, "timestamp", PyStr("invalid-date"))) : e \in Enriched}
       \cup {PyDict(DictSet(e.d, "timestamp", PyInt(5))) : e \in Enriched}

InitUpdate ==
  /\ exists = FALSE
  /\ file = <<>>
  /\ pending = <<>>
  /\ written = <<>>
  /\ pc = "main"
  /\ pos = 0
  /\ seekLen = -1
  /\ line = <<>>
  /\ parsed_log = PyNone
  /\ processed_logs_count = 0
  /\ parser = InitParser
  /\ agg = InitAggregations
  /\ reports = 0
  /\ delivered = <<>>
  /\ raised = ""
  /\ start_time = FALSE
  /\ final = <<>>
  /\ existed = FALSE
  /\ root_handlers = PipelineConstructed
  /\ hour_warnings = 0

RECURSIVE SumOf(_, _)
\* the sum of f over the finite set D
SumOf(f, D) ==
  IF D = {} THEN 0
  ELSE LET x == CHOOSE y \in D : TRUE IN f[x] + SumOf(f, D \ {x})

SumValues(f) == SumOf(f, DOMAIN f)

\* the calls of _update_aggregations so far: line 107 counts each of them
UpdateCalls == SumValues(agg.event_type_counts)

\* pipeline._update_aggregations(entry), for the next record
CallAggregate ==
  /\ pc = "main" /\ raised = "" /\ UpdateCalls < MaxCalls
  /\ \E entry \in UpdateEntries :
       LET r == update_aggregations(agg, entry) IN
         /\ parsed_log' = entry
         /\ agg' = r.agg
         /\ raised' = r.raised
         /\ hour_warnings' = IF r.warned THEN hour_warnings + 1 ELSE hour_warnings
  /\ UNCHANGED <<pc, pos, seekLen, line, processed_logs_count, parser, reports,
                 delivered, start_time, final, existed, root_handlers>>
  /\ UNCHANGED producerVars

SpecUpdate == InitUpdate /\ [][CallAggregate]_vars

\* --------------------------------------------- what the properties speak of

\* the schema of the specification's data model, stated on a decoded value
ScalarFields ==
  {"timestamp", "event_type", "session_id", "user_id", "ip_address",
   "user_agent", "location"}

IsValidRecord(e) ==
  /\ e.t = "dict"
  /\ \A f \in ScalarFields : f \in DOMAIN e.d /\ e.d[f].t = "str"
  /\ "data" \in DOMAIN e.d /\ e.d["data"].t = "dict"
  /\ e.d["timestamp"].s \in DOMAIN IsoHour

\* json.loads of the whole lines of the model, computed once
Decoded == [text \in {l \o <<NL>> : l \in Lines} |-> loads(text)]
Decode(text) == IF text \in DOMAIN Decoded THEN Decoded[text] ELSE loads(text)

IsJson(text) == Decode(text).ok
IsJsonObject(text) == LET r == Decode(text) IN r.ok /\ r.v.t = "dict"
IsValidLine(text) == LET r == Decode(text) IN r.ok /\ IsValidRecord(r.v)

\* the text of the i-th argument of parse_log_line
Text(i) == delivered[i].arg.text
Record(i) == Decode(Text(i)).v

\* the calls so far whose argument satisfies Q
Calls(Q(_)) == {i \in 1..Len(delivered) : Q(i)}

\* no line is between its parse and the end of its aggregation
Settled == pc \notin {"enrich", "aggregate"}

stats == parser.stats
failed_logs == parser.failed_logs

\* the lines appended since the seek to the end of the file
AfterSeek == LET Later(w) == w.at >= seekLen IN SelectSeq(written, Later)

\* the number of line terminators in the file after offset p
Terminators(p) == Cardinality({i \in (p + 1)..Len(file) : IsTok(file[i], "w", "\n")})

\* ------------------------------------------------------------ properties

\* C1: after any sequence of calls of parse_log_line, parsed + failed is
\* the number of calls, and each call raises exactly one of the two
\* counters by exactly 1 and leaves the other as it was; nothing else
\* changes them.
C1_ParsedPlusFailed ==
  /\ [](stats.parsed + stats.failed = Len(delivered))
  /\ [][IF Len(delivered') = Len(delivered) + 1
          THEN \/ stats'.parsed = stats.parsed + 1 /\ stats'.failed = stats.failed
               \/ stats'.parsed = stats.parsed /\ stats'.failed = stats.failed + 1
          ELSE stats' = stats /\ delivered' = delivered]_vars

C1_Witness == stats.parsed >= 1 /\ stats.failed >= 1

\* C2: parse_log_line never raises to its caller, whatever it is given,
\* a value that is not a str included: every call ends counted, as parsed
\* or as a stored failure.
C2_NeverRaises ==
  /\ raised = ""
  /\ stats.parsed + Len(failed_logs) = Len(delivered)
  /\ \A i \in 1..Len(delivered) :
       delivered[i].arg.t # "str" =>
         \E k \in 1..Len(failed_logs) : failed_logs[k].reason = "unexpected_error"

\* C3: no line that was in the file before the seek to its end is passed
\* to parse_log_line, and the lines appended after it are passed once
\* each, in the order of their appends: the calls made are the first of
\* those lines, and the others are the line in hand and the lines still
\* unread.
C3_TailDelivery ==
  /\ seekLen = -1 => delivered = <<>>
  /\ \A i \in 1..Len(delivered) :
       /\ delivered[i].at >= seekLen
       /\ i <= Len(AfterSeek)
       /\ delivered[i].arg = StrArg(AfterSeek[i].text)
       /\ delivered[i].at = AfterSeek[i].at
  /\ seekLen >= 0 =>
       Len(AfterSeek) = Len(delivered)
                        + (IF pc \in {"count", "parse"} THEN 1 ELSE 0)
                        + Terminators(pos)

C3_Witness ==
  /\ seekLen > 0
  /\ Len(delivered) >= 2
  /\ pc = "sleep"

\* C4: a line the producer writes in two pieces is passed to
\* parse_log_line whole, once its terminator is written: every text
\* passed is a line the producer wrote, terminator included.
C4_CompleteLinesOnly ==
  \A i \in 1..Len(delivered) :
    /\ IsTok(Text(i)[Len(Text(i))], "w", "\n")
    /\ \E j \in 1..Len(written) : written[j].text = Text(i)

\* C5: process_logs_streaming never raises, whatever lines are appended.
C5_NeverStops == pc # "raised" /\ raised = ""

\* C6: on every decoded JSON object validate_log_entry returns True
\* exactly when the object satisfies the schema, and a line reaches
\* _update_aggregations exactly when its decoded object does: the records
\* aggregated are as many as the valid lines passed.
C6_Validity ==
  /\ \A i \in 1..Len(delivered) :
       IsJsonObject(Text(i)) =>
         ((validate_log_entry(Record(i)) = "True") <=> IsValidRecord(Record(i)))
  /\ pc \in {"enrich", "aggregate"} => IsValidLine(line)
  /\ pc = "skip" => ~IsValidLine(line)
  /\ Settled =>
       SumValues(agg.event_type_counts)
         = Cardinality({i \in 1..Len(delivered) : IsValidLine(Text(i))})

C6_Witness ==
  /\ pc = "report"
  /\ \E i \in 1..Len(delivered) : IsValidLine(Text(i))
  /\ \E i \in 1..Len(delivered) : IsJsonObject(Text(i)) /\ ~IsValidLine(Text(i))

\* C7: once the lines read are processed, the hour buckets sum to parsed,
\* and each bucket counts the valid lines whose timestamp has that hour.
HourOf(i) == IsoHour[Record(i).d["timestamp"].s]

C7_HourlySum ==
  Settled =>
    LET valid == {i \in 1..Len(delivered) : IsValidLine(Text(i))}
        hours == [i \in valid |-> HourOf(i)]
    IN /\ SumOf(agg.hourly_traffic, 0..23) = stats.parsed
       /\ \A h \in 0..23 :
            agg.hourly_traffic[h] = Cardinality({i \in valid : hours[i] = h})

C7_Witness ==
  /\ pc = "report"
  /\ stats.parsed >= 1 /\ stats.failed >= 1
  /\ agg.hourly_traffic[16] = 1

\* C8: after any sequence of valid records, purchase_summary.count is the
\* number of purchase records among them and total_amount the sum of
\* their amounts; no other record changes the summary.
HasAmount(i) ==
  /\ IsValidLine(Text(i))
  /\ Record(i).d["event_type"].s = "purchase"
  /\ "total_amount" \in DOMAIN Record(i).d["data"].d =>
       Record(i).d["data"].d["total_amount"].t = "int"

Amount(i) ==
  IF "total_amount" \in DOMAIN Record(i).d["data"].d
    THEN Record(i).d["data"].d["total_amount"].i
    ELSE 0

Purchases == {i \in 1..Len(delivered) : HasAmount(i)}

C8_PurchaseSummary ==
  Settled =>
    /\ agg.purchase_summary.count = Cardinality(Purchases)
    /\ agg.purchase_summary.total_amount = SumOf([i \in Purchases |-> Amount(i)], Purchases)

C8_Witness ==
  /\ pc = "report"
  /\ agg.purchase_summary.count = 2
  /\ agg.purchase_summary.total_amount = 2

\* C9 as amended: every count of the aggregation state is non-negative
\* and never decreases; purchase_summary.total_amount and
\* session_duration_sum move only by the value the record carries, so
\* they stay non-negative as long as no record carries a negative value.
CountMaps ==
  <<agg.event_type_counts, agg.hourly_traffic, agg.location_traffic,
    agg.device_type_traffic, agg.os_traffic, agg.error_counts>>

CountsNonNegative ==
  /\ \A m \in 1..Len(CountMaps) : \A key \in DOMAIN CountMaps[m] : CountMaps[m][key] >= 0
  /\ agg.purchase_summary.count >= 0
  /\ agg.session_duration_count >= 0

CountsNeverDecrease ==
  /\ \A m \in 1..Len(CountMaps) : \A key \in DOMAIN CountMaps[m] :
       key \in DOMAIN CountMaps'[m] /\ CountMaps'[m][key] >= CountMaps[m][key]
  /\ agg'.purchase_summary.count >= agg.purchase_summary.count
  /\ agg'.session_duration_count >= agg.session_duration_count

\* the number the record in hand carries under key, 0 when it has none
Carried(key) ==
  IF key \in DOMAIN parsed_log.d["data"].d THEN parsed_log.d["data"].d[key].i ELSE 0

SumsMoveByValue ==
  /\ agg'.purchase_summary.total_amount # agg.purchase_summary.total_amount =>
       /\ pc = "aggregate" /\ parsed_log.d["event_type"].s = "purchase"
       /\ agg'.purchase_summary.total_amount
            = agg.purchase_summary.total_amount + Carried("total_amount")
  /\ agg'.session_duration_sum # agg.session_duration_sum =>
       /\ pc = "aggregate" /\ parsed_log.d["event_type"].s = "user_session_end"
       /\ agg'.session_duration_sum = agg.session_duration_sum + Carried("duration_seconds")

\* a record passed so far carries a negative number under key
NegativeSeen(key) ==
  \E i \in 1..Len(delivered) :
    /\ IsValidLine(Text(i))
    /\ key \in DOMAIN Record(i).d["data"].d
    /\ Record(i).d["data"].d[key].i < 0

SumsNonNegative ==
  /\ ~NegativeSeen("total_amount") => agg.purchase_summary.total_amount >= 0
  /\ ~NegativeSeen("duration_seconds") => agg.session_duration_sum >= 0

C9_Counters ==
  /\ [](CountsNonNegative /\ SumsNonNegative)
  /\ [][CountsNeverDecrease /\ SumsMoveByValue]_vars

C9_Witness ==
  /\ pc = "report"
  /\ agg.purchase_summary.total_amount = -3
  /\ agg.session_duration_sum = 30

\* C9 as stated: every counter, the two sums included, is non-negative
\* in every reachable state, whatever numbers the records carry.
C9_AllNonNegative ==
  /\ CountsNonNegative
  /\ agg.purchase_summary.total_amount >= 0
  /\ agg.session_duration_sum >= 0

\* C10 as amended: for every line that is not valid JSON, parse_log_line
\* returns no record, stores one failure whose reason is
\* json_decode_error, raises failed by 1 and leaves parsed as it was;
\* every reason stored is one of json_decode_error, validation_failed,
\* unexpected_error.
ReasonsWithin(names) ==
  \A k \in 1..Len(failed_logs) : failed_logs[k].reason \in names

RejectsAs(reason) ==
  (pc = "parse" /\ pc' # "parse" /\ ~IsJson(line)) =>
    /\ parsed_log' = PyNone
    /\ Len(failed_logs') = Len(failed_logs) + 1
    /\ SubSeq(failed_logs', 1, Len(failed_logs)) = failed_logs
    /\ failed_logs'[Len(failed_logs')].reason = reason
    /\ stats'.failed = stats.failed + 1
    /\ stats'.parsed = stats.parsed

Stopped == pc \in {"final_metrics", "final_aggregations", "final_stats", "exit"}

FinalCalls ==
  IF pc \in Running \cup {"raised", "final_metrics"} THEN <<>>
  ELSE IF pc = "final_aggregations" THEN <<"display_performance_metrics">>
  ELSE <<"display_performance_metrics", "display_realtime_aggregations">>

C14_AtomicLine ==
  \A k \in 1..Len(final) :
    /\ final[k].state.processed
         = final[k].state.stats.parsed + final[k].state.stats.failed
    /\ final[k].state.stats.parsed
         = SumValues(final[k].state.agg.event_type_counts)

\* C11: for every line that decodes to a JSON object violating the
\* schema (a field missing, a field of the wrong type, a timestamp that
\* does not parse) parse_log_line returns no record and stores one
\* failure, whose reason is validation_failed.
SchemaViolation(arg) ==
  arg.t = "str" /\ IsJsonObject(arg.text) /\ ~IsValidRecord(Decode(arg.text).v)

C11_ValidationFailed ==
  [][(Len(delivered') = Len(delivered) + 1
        /\ SchemaViolation(delivered'[Len(delivered')].arg)) =>
       /\ raised' = ""
       /\ parsed_log' = PyNone
       /\ Len(failed_logs') = Len(failed_logs) + 1
       /\ SubSeq(failed_logs', 1, Len(failed_logs)) = failed_logs
       /\ failed_logs'[Len(failed_logs')].reason = "validation_failed"
       /\ stats'.parsed = stats.parsed]_vars

C11_Witness ==
  /\ Len(delivered) = 2 /\ Len(failed_logs) = 2
  /\ SchemaViolation(delivered[1].arg) /\ SchemaViolation(delivered[2].arg)
  /\ "timestamp" \notin DOMAIN Record(1).d
  /\ "timestamp" \in DOMAIN Record(2).d /\ Record(2).d["timestamp"].s = "invalid-date"
  /\ failed_logs[1].reason = "validation_failed"
  /\ failed_logs[2].reason = "validation_failed"

\* C12: the message stored for a JSON object that fails validation names
\* the first required field, in the checking order, that is missing or of
\* the wrong type, or else the timestamp value that does not parse.
RECURSIVE FirstBadField(_, _)
FirstBadField(e, i) ==
  IF i > Len(required_fields) THEN ""
  ELSE IF required_fields[i][1] \notin DOMAIN e.d
          \/ e.d[required_fields[i][1]].t # required_fields[i][2]
    THEN required_fields[i][1]
  ELSE FirstBadField(e, i + 1)

\* what the diagnostic of a rejected object has to name
Culprit(e) ==
  IF FirstBadField(e, 1) # "" THEN FirstBadField(e, 1) ELSE e.d["timestamp"].s

\* word occurs in the message: in its fixed text, in the error it quotes
\* or in the text of the line it quotes
Names(message, word) ==
  \/ Find(word, message.text)
  \/ Find(word, message.err)
  \/ \E i \in 1..Len(message.line) : Find(word, message.line[i].v)

C12_MessageNamesField ==
  \A k \in 1..Len(failed_logs) :
    (failed_logs[k].reason = "validation_failed"
       /\ IsJsonObject(failed_logs[k].original_line)) =>
      Names(failed_logs[k].message, Culprit(Decode(failed_logs[k].original_line).v))

\* C15: a periodic report is produced each time the number of processed
\* lines reaches a positive multiple of the cadence the process is
\* given, whatever it is: between two lines the reports made are the
\* multiples of the cadence reached.
Cadences == {1, 2, ReportEvery}

C15_ReportEveryN ==
  \A cadence \in Cadences :
    pc \in {"readline", "sleep"} => reports = processed_logs_count \div cadence

\* C16: when app.log does not exist as the pipeline starts, nothing is
\* read until it exists, and no line appended since the start is left
\* behind the position the tailer starts reading from.
C16_NothingSkipped ==
  ~existed =>
    /\ pc \in {"start", "check", "wait", "open"} => delivered = <<>> /\ pos = 0
    /\ seekLen >= 0 => \A i \in 1..Len(written) : written[i].at >= seekLen

\* C19: the original_line of every stored failure is the text that was
\* passed to parse_log_line, character for character, leading and
\* trailing whitespace and the line terminator included.
C19_Verbatim ==
  \A k \in 1..Len(failed_logs) :
    \E i \in 1..Len(delivered) : failed_logs[k].original_line = Text(i)

\* C20: failed_logs only grows at its end: a call that returns no record
\* appends one entry, a call that returns a record and every other step
\* leave the list as it is, and its length is stats['failed'] in every
\* state.
C20_AppendOnly ==
  /\ [](Len(failed_logs) = stats.failed)
  /\ [][IF Len(delivered') = Len(delivered) + 1 /\ parsed_log' = PyNone
          THEN /\ Len(failed_logs') = Len(failed_logs) + 1
               /\ SubSeq(failed_logs', 1, Len(failed_logs)) = failed_logs
          ELSE failed_logs' = failed_logs]_vars

C20_Witness ==
  /\ Len(delivered) = 2 /\ pc = "report"
  /\ ~IsValidLine(Text(1)) /\ IsValidLine(Text(2))
  /\ Len(failed_logs) = 1 /\ stats.parsed = 1

\* C17: the device_type given to a user agent is Tablet when it contains
\* iPad; else Mobile when it contains Mobile, Android or iPhone; else
\* Desktop when it contains Windows, Macintosh, X11 or Linux; else
\* Unknown. It depends on the user agent alone.
DeviceRule(user_agent) ==
  IF Find("iPad", user_agent) THEN "Tablet"
  ELSE IF \E m \in {"Mobile", "Android", "iPhone"} : Find(m, user_agent) THEN "Mobile"
  ELSE IF \E m \in {"Windows", "Macintosh", "X11", "Linux"} : Find(m, user_agent)
    THEN "Desktop"
  ELSE "Unknown"

Classified == pc = "aggregate" /\ "device_type" \in DOMAIN parsed_log.d

C17_DeviceType ==
  Classified =>
    /\ parsed_log.d["device_type"].s = DeviceRule(parsed_log.d["user_agent"].s)
    /\ parsed_log.d["device_type"].s \in {"Desktop", "Mobile", "Tablet", "Unknown"}

C17_Witness ==
  /\ Classified
  /\ parsed_log.d["device_type"].s = "Tablet"
  /\ Find("Mobile", parsed_log.d["user_agent"].s)
  /\ Find("Android", parsed_log.d["user_agent"].s)
  /\ Find("Windows", parsed_log.d["user_agent"].s)

\* C18: the os_name given to a user agent is that of the first rule that
\* matches, whatever the device_type: Windows NT 10.0, Windows NT,
\* Macintosh; Intel Mac OS X, Android, iPhone or iPad, Ubuntu or Linux,
\* else Unknown. A user agent with Linux and Android that matches none
\* of the three rules before gives Android, and os_name is never empty.
OsRules ==
  << <<{"Windows NT 10.0"}, "Windows 10">>, <<{"Windows NT"}, "Windows (Older)">>,
     <<{"Macintosh; Intel Mac OS X"}, "macOS">>, <<{"Android"}, "Android">>,
     <<{"iPhone", "iPad"}, "iOS">>, <<{"Ubuntu", "Linux"}, "Linux">> >>

RECURSIVE OsRule(_, _)
OsRule(user_agent, i) ==
  IF i > Len(OsRules) THEN "Unknown"
  ELSE IF \E m \in OsRules[i][1] : Find(m, user_agent) THEN OsRules[i][2]
  ELSE OsRule(user_agent, i + 1)

C18_OsName ==
  Classified =>
    /\ parsed_log.d["os_name"].s = OsRule(parsed_log.d["user_agent"].s, 1)
    /\ parsed_log.d["os_name"].s # ""
    /\ (/\ Find("Linux", parsed_log.d["user_agent"].s)
        /\ Find("Android", parsed_log.d["user_agent"].s)
        /\ \A i \in 1..3 : \A m \in OsRules[i][1] :
             ~Find(m, parsed_log.d["user_agent"].s))
         => parsed_log.d["os_name"].s = "Android"

C18_Witness ==
  /\ Classified
  /\ parsed_log.d["os_name"].s = "Android"
  /\ parsed_log.d["device_type"].s = "Tablet"
  /\ Find("Linux", parsed_log.d["user_agent"].s)
  /\ Find("Ubuntu", parsed_log.d["user_agent"].s)

\* C23: once the LogPipeline is constructed the log records go to two
\* independent sinks: those of the parser to parser.log, those of the
\* pipeline, its reports included, to pipeline.log.
C23_TwoSinks ==
  /\ "parser.log" \in Sinks("log_parser")
  /\ "pipeline.log" \in Sinks("log_pipeline")
  /\ "pipeline.log" \notin Sinks("log_parser")
  /\ "parser.log" \notin Sinks("log_pipeline")

\* C22: _enrich_log_entry alters no original field of a valid record:
\* every key the record had before has the same value after, and the only
\* keys added are device_type and os_name.
C22_OriginalsKept ==
  [][pc = "enrich" =>
       /\ DOMAIN parsed_log'.d = DOMAIN parsed_log.d \cup {"device_type", "os_name"}
       /\ \A key \in DOMAIN parsed_log.d : parsed_log'.d[key] = parsed_log.d[key]]_vars

\* the records of the model that satisfy the validity predicate
RoundTripRecords == {e \in ValidEntries \cup {CheckoutEntry} : IsValidRecord(e)}

\* json.dumps of each of them, computed once
JsonLine == [e \in RoundTripRecords |-> dumps(e)]

\* C21: a record that satisfies the validity predicate, serialized to one
\* JSON line and passed to parse_log_line, comes back equal to the
\* original in every field and is counted as parsed.
C21_RoundTrip ==
  [][\A e \in RoundTripRecords :
       (/\ Len(delivered') = Len(delivered) + 1
        /\ delivered'[Len(delivered')].arg \in
              {StrArg(JsonLine[e]), StrArg(JsonLine[e] \o <<NL>>)})
       => /\ parsed_log' = e
          /\ raised' = ""
          /\ stats'.parsed = stats.parsed + 1
          /\ stats'.failed = stats.failed
          /\ failed_logs' = failed_logs]_vars

C21_Witness ==
  /\ Len(delivered) = 2
  /\ delivered[1].arg = StrArg(<<N(42)>>)
  /\ delivered[2].arg = StrArg(dumps(CheckoutEntry) \o <<NL>>)
  /\ parsed_log = CheckoutEntry
  /\ stats.parsed = 1

\* new is old with 1 added under key, a missing key counting as 0
OneMore(old, new, key) ==
  /\ DOMAIN new = DOMAIN old \cup {key}
  /\ new[key] = (IF key \in DOMAIN old THEN old[key] ELSE 0) + 1
  /\ \A k \in DOMAIN old \ {key} : new[k] = old[k]

\* counts[key], a missing key counting as 0
CountOf(counts, key) == IF key \in DOMAIN counts THEN counts[key] ELSE 0

\* the record has the two fields enrichment adds
HasDerived(e) ==
  /\ e.t = "dict"
  /\ \A f \in {"device_type", "os_name"} : f \in DOMAIN e.d /\ e.d[f].t = "str"

IsEnriched(e) == IsValidRecord(e) /\ HasDerived(e)

EventIs(e, event_type) == e.d["event_type"] = PyStr(event_type)
Lacks(e, key) == key \notin DOMAIN e.d["data"].d

\* C24: each call of _update_aggregations on an enriched valid record adds
\* exactly 1 to exactly one key of each of event_type_counts,
\* hourly_traffic, location_traffic, device_type_traffic and os_traffic,
\* the key named by the record, and leaves their other keys as they were;
\* purchase_summary changes only for a purchase, error_counts only for an
\* error, the session accumulators only for a user_session_end.
C24_UpdateFrame ==
  [][LET e == parsed_log' IN
     IsEnriched(e) =>
       /\ OneMore(agg.event_type_counts, agg'.event_type_counts, e.d["event_type"])
       /\ OneMore(agg.hourly_traffic, agg'.hourly_traffic, IsoHour[e.d["timestamp"].s])
       /\ OneMore(agg.location_traffic, agg'.location_traffic, e.d["location"])
       /\ OneMore(agg.device_type_traffic, agg'.device_type_traffic, e.d["device_type"])
       /\ OneMore(agg.os_traffic, agg'.os_traffic, e.d["os_name"])
       /\ agg'.purchase_summary # agg.purchase_summary => EventIs(e, "purchase")
       /\ agg'.error_counts # agg.error_counts => EventIs(e, "error")
       /\ (\/ agg'.session_duration_sum # agg.session_duration_sum
           \/ agg'.session_duration_count # agg.session_duration_count)
            => EventIs(e, "user_session_end")]_vars

C24_Witness ==
  /\ UpdateCalls = 2
  /\ IsEnriched(parsed_log) /\ EventIs(parsed_log, "error")
  /\ agg.purchase_summary = [total_amount |-> 5, count |-> 1]
  /\ agg.error_counts = (PyStr("LOGIN_FAILED") :> 1)
  /\ agg.session_duration_count = 0
  /\ hour_warnings = 0

\* the timestamp is missing, is not a str or is no ISO-8601 text
BadStamp(e) ==
  \/ "timestamp" \notin DOMAIN e.d
  \/ e.d["timestamp"].t # "str"
  \/ e.d["timestamp"].s \notin DOMAIN IsoHour

\* the record is an enriched valid record but for its timestamp
ValidButStamp(e) ==
  /\ HasDerived(e)
  /\ \A f \in ScalarFields \ {"timestamp"} : f \in DOMAIN e.d /\ e.d[f].t = "str"
  /\ "data" \in DOMAIN e.d /\ e.d["data"].t = "dict"

\* the values _update_aggregations reads in data are of the type it needs
Readable(e) ==
  /\ (EventIs(e, "purchase") /\ ~Lacks(e, "total_amount"))
       => e.d["data"].d["total_amount"].t = "int"
  /\ (EventIs(e, "error") /\ ~Lacks(e, "error_code"))
       => e.d["data"].d["error_code"].t = "str"
  /\ (EventIs(e, "user_session_end") /\ ~Lacks(e, "duration_seconds"))
       => e.d["data"].d["duration_seconds"].t = "int"

\* data[key] as a number, 0 when the key is missing
NumberIn(e, key) == IF Lacks(e, key) THEN 0 ELSE e.d["data"].d[key].i

\* C25: when _update_aggregations is called with a record whose timestamp
\* is missing or does not parse, hourly_traffic is left as it was, a
\* warning is logged, no error propagates and the other counters (event
\* type, location, device, OS and the conditional ones of the record's
\* event type) are updated as for any record.
C25_BadTimestamp ==
  [][LET e == parsed_log' IN
     (ValidButStamp(e) /\ BadStamp(e) /\ Readable(e)) =>
       /\ agg'.hourly_traffic = agg.hourly_traffic
       /\ hour_warnings' = hour_warnings + 1
       /\ raised' = ""
       /\ OneMore(agg.event_type_counts, agg'.event_type_counts, e.d["event_type"])
       /\ OneMore(agg.location_traffic, agg'.location_traffic, e.d["location"])
       /\ OneMore(agg.device_type_traffic, agg'.device_type_traffic, e.d["device_type"])
       /\ OneMore(agg.os_traffic, agg'.os_traffic, e.d["os_name"])
       /\ agg'.purchase_summary =
            IF EventIs(e, "purchase")
              THEN [total_amount |-> agg.purchase_summary.total_amount
                                       + NumberIn(e, "total_amount"),
                    count |-> agg.purchase_summary.count + 1]
              ELSE agg.purchase_summary
       /\ IF EventIs(e, "error")
            THEN OneMore(agg.error_counts, agg'.error_counts,
                         IF Lacks(e, "error_code") THEN PyStr("UNKNOWN_ERROR")
                         ELSE e.d["data"].d["error_code"])
            ELSE agg'.error_counts = agg.error_counts
       /\ agg'.session_duration_sum =
            agg.session_duration_sum
              + (IF EventIs(e, "user_session_end") THEN NumberIn(e, "duration_seconds")
                 ELSE 0)
       /\ agg'.session_duration_count =
            agg.session_duration_count
              + (IF EventIs(e, "user_session_end") THEN 1 ELSE 0)]_vars

C25_Witness ==
  /\ hour_warnings = 2
  /\ raised = ""
  /\ "timestamp" \notin DOMAIN parsed_log.d
  /\ EventIs(parsed_log, "user_session_end")
  /\ agg.hourly_traffic = InitAggregations.hourly_traffic
  /\ agg.purchase_summary = [total_amount |-> -3, count |-> 1]
  /\ agg.session_duration_sum = 30

\* the record with only the keys of data that _update_aggregations reads
KnownOnly(e) ==
  PyDict(DictSet(e.d, "data",
    PyDict([k \in DOMAIN e.d["data"].d
                    \cap {"total_amount", "error_code", "duration_seconds"}
              |-> e.d["data"].d[k]])))

\* C26: _update_aggregations completes without error for every valid
\* record whose data lacks the key it reads and applies the default: a
\* purchase without total_amount adds 0 to the total and 1 to the count,
\* an error without error_code adds 1 to error_counts['UNKNOWN_ERROR'], a
\* user_session_end without duration_seconds adds 0 to the sum and 1 to
\* the count; the keys of data it does not read change nothing.
C26_Defaults ==
  [][LET e == parsed_log' IN
     IsEnriched(e) =>
       /\ (EventIs(e, "purchase") /\ Lacks(e, "total_amount")) =>
            /\ raised' = ""
            /\ agg'.purchase_summary =
                 [total_amount |-> agg.purchase_summary.total_amount,
                  count |-> agg.purchase_summary.count + 1]
       /\ (EventIs(e, "error") /\ Lacks(e, "error_code")) =>
            /\ raised' = ""
            /\ OneMore(agg.error_counts, agg'.error_counts, PyStr("UNKNOWN_ERROR"))
       /\ (EventIs(e, "user_session_end") /\ Lacks(e, "duration_seconds")) =>
            /\ raised' = ""
            /\ agg'.session_duration_sum = agg.session_duration_sum
            /\ agg'.session_duration_count = agg.session_duration_count + 1
       /\ agg' = update_aggregations(agg, KnownOnly(e)).agg
       /\ raised' = update_aggregations(agg, KnownOnly(e)).raised]_vars

C26_Witness ==
  /\ UpdateCalls = 2
  /\ raised = "" /\ hour_warnings = 0
  /\ IsEnriched(parsed_log) /\ EventIs(parsed_log, "user_session_end")
  /\ Lacks(parsed_log, "duration_seconds") /\ ~Lacks(parsed_log, "page_url")
  /\ agg.error_counts = (PyStr("UNKNOWN_ERROR") :> 1)
  /\ agg.session_duration_sum = 0 /\ agg.session_duration_count = 1

\* C30: after any sequence of completed _update_aggregations calls,
\* purchase_summary['count'] is event_type_counts['purchase'], the sum of
\* the values of error_counts is event_type_counts['error'] and
\* session_duration_count is event_type_counts['user_session_end'], a
\* missing key counting as 0.
C30_ConditionalViews ==
  raised = "" =>
    /\ agg.purchase_summary.count = CountOf(agg.event_type_counts, PyStr("purchase"))
    /\ SumValues(agg.error_counts) = CountOf(agg.event_type_counts, PyStr("error"))
    /\ agg.session_duration_count
         = CountOf(agg.event_type_counts, PyStr("user_session_end"))

C30_Witness ==
  /\ UpdateCalls = 2
  /\ raised = ""
  /\ agg.event_type_counts = (PyStr("user_session_end") :> 2)
  /\ agg.session_duration_count = 2
  /\ agg.session_duration_sum = -5
  /\ hour_warnings = 1

\* C27: in every state of the pipeline, from construction onward, the
\* keys of hourly_traffic are exactly the 24 integers 0..23.
C27_HourKeys == DOMAIN agg.hourly_traffic = 0..23

C27_Witness ==
  /\ agg.hourly_traffic[0] = 1
  /\ agg.hourly_traffic[23] = 1
  /\ pc = "readline"

\* no line is between its count and the end of its processing
FullyProcessed == pc \notin {"parse", "enrich", "aggregate"}

\* C29: after any sequence of lines has been fully processed by
\* process_logs_streaming, the sums of the values of event_type_counts,
\* location_traffic, device_type_traffic and os_traffic are all equal to
\* stats['parsed'], and processed_logs_count is stats['parsed'] +
\* stats['failed'].
C29_ViewsConsistent ==
  FullyProcessed =>
    /\ SumValues(agg.event_type_counts) = stats.parsed
    /\ SumValues(agg.location_traffic) = stats.parsed
    /\ SumValues(agg.device_type_traffic) = stats.parsed
    /\ SumValues(agg.os_traffic) = stats.parsed
    /\ processed_logs_count = stats.parsed + stats.failed

C29_Witness ==
  /\ pc = "sleep"
  /\ processed_logs_count = 2
  /\ stats.parsed = 1 /\ stats.failed = 1
  /\ SumValues(agg.os_traffic) = 1

\* C28: display_realtime_aggregations reports the average session
\* duration as session_duration_sum / session_duration_count when the
\* count is greater than zero and as unavailable (N/A) when it is zero;
\* the division is never evaluated with a zero count, a report made
\* before any user_session_end record included.
C28_AverageGuard ==
  /\ raised # "ZeroDivisionError"
  /\ \A k \in 1..Len(final) :
       final[k].call = "display_realtime_aggregations" =>
         LET a == final[k].state.agg IN
           /\ a.session_duration_count > 0 =>
                final[k].average = [text |-> "secondes",
                                    dividend |-> a.session_duration_sum,
                                    divisor |-> a.session_duration_count]
           /\ a.session_duration_count = 0 => final[k].average.text = "N/A"
           /\ final[k].average.text # "N/A" => final[k].average.divisor # 0

C28_Witness ==
  /\ pc = "exit"
  /\ stats.parsed = 1
  /\ agg.purchase_summary.count = 1
  /\ agg.session_duration_count = 0
  /\ Len(final) = 2
  /\ final[2].average.text = "N/A"

====
